---- MODULE Spec2Model ----
(***************************************************************************)
(* Model of the service worker src/sw.js: the install / activate lifecycle *)
(* the fetch handler's classification, and the three caching strategies    *)
(* cacheFirst, networkFirst and staleWhileRevalidate, over the browser's   *)
(* CacheStorage (an insertion-ordered map of named caches) and the network.*)
(* Every await of the source is one step of the request that executes it.  *)
(***************************************************************************)
EXTENDS Integers, Sequences, FiniteSets, TLC

(* ------------------------------ bounds --------------------------------- *)
\* number of fetch events the model dispatches (they run interleaved)
MaxReqs == 2
\* number of distinct payloads the network can serve for one URL
NumBodies == 2

BodyNames == <<"B1", "B2", "B3", "B4">>
Bodies == {BodyNames[i] : i \in 1..NumBodies}
Slots == 1..MaxReqs

(* --------------------------- program constants -------------------------- *)
STATIC_CACHE == "static-v1.2"
DYNAMIC_CACHE == "dynamic-v1.2"

\* the worker's scope, against which relative URLs are resolved
Origin == <<"https:", "//pizzaria.example">>

\* URLs are sequences of tokens; a pattern is a sequence of tokens too
STATIC_ASSETS ==
    << <<"/">>,
       <<"/index.html">>,
       <<"/styles.css">>,
       <<"/content.html">>,
       <<"https:", "//fonts.googleapis.com/", "css2?family=Poppins">>,
       <<"https:", "//cdnjs.cloudflare.com/", "ajax/libs/font-awesome/6.4.0/js/all.min.js">> >>

NETWORK_FIRST ==
    << <<"/api/">>,
       <<"/contact">>,
       <<"https:", "//www.google.com", "/maps/">> >>

STALE_WHILE_REVALIDATE ==
    << <<"https:", "//fonts.googleapis.com/">>,
       <<"https:", "//fonts.gstatic.com/">>,
       <<"https:", "//cdnjs.cloudflare.com/">> >>

(* ------------------------------ URLs ------------------------------------ *)
IsAbsolute(u) == u[1] \in {"https:", "http:", "chrome-extension:"}

\* new URL(u, self.location): a relative URL is resolved against the scope
Resolve(u) == IF IsAbsolute(u) THEN u ELSE Origin \o u

\* String.prototype.includes
Includes(u, p) ==
    \E i \in 1..(Len(u) - Len(p) + 1) : SubSeq(u, i, i + Len(p) - 1) = p

\* Array.prototype.some(pattern => url.includes(pattern))
SomeIncludes(patterns, u) ==
    \E j \in 1..Len(patterns) : Includes(u, patterns[j])

\* request.url.startsWith('http')
StartsWithHttp(u) == u[1] \in {"http:", "https:"}

(* ----------------------------- values ----------------------------------- *)
Val(k) == [kind |-> k, status |-> 0, statusText |-> "", contentType |-> "", body |-> ""]
None == Val("none")            \* no value yet / respondWith not called
Pending == Val("pending")      \* a promise that has not settled
Undefined == Val("undefined")
Null == Val("null")
Rejected == Val("rejected")    \* a promise that rejected

\* a response served by the network
NetResponse(st, b) ==
    [kind |-> "response", status |-> st,
     statusText |-> IF st = 200 THEN "OK" ELSE "Not Found",
     contentType |-> "upstream", body |-> b]

NetResponses == {NetResponse(200, b) : b \in Bodies} \cup {NetResponse(404, "missing")}

\* new Response('Offline', {status: 503, statusText: 'Service Unavailable',
\*                          headers: {'Content-Type': 'text/plain'}})
OfflineResponse ==
    [kind |-> "response", status |-> 503, statusText |-> "Service Unavailable",
     contentType |-> "text/plain", body |-> "Offline"]

\* new Response('Offline', { status: 503 }): default reason and content type
BareOfflineResponse ==
    [kind |-> "response", status |-> 503, statusText |-> "",
     contentType |-> "text/plain;charset=UTF-8", body |-> "Offline"]

\* JavaScript truthiness of a value held in a variable
Truthy(v) == v.kind = "response"

(* --------------------------- CacheStorage -------------------------------- *)
\* a cache obsolete for this version, which an earlier deployment left
\* behind: DYNAMIC_CACHE as the previous version of the worker named it
OBSOLETE_CACHE == "dynamic-v1.1"
ObsoleteNames == {OBSOLETE_CACHE}
CacheNames == {STATIC_CACHE, DYNAMIC_CACHE} \cup ObsoleteNames

\* the key under which a request is stored: its method and its absolute URL
KeyOf(method, u) == [method |-> method, url |-> Resolve(u)]

NoEntries == [k \in {} |-> None]

\* the names of the live caches, in creation order (caches.keys())
NamesOf(cs) == {cs[i].name : i \in 1..Len(cs)}
IndexOf(cs, n) == CHOOSE i \in 1..Len(cs) : cs[i].name = n
EntriesOf(cs, n) == IF n \in NamesOf(cs) THEN cs[IndexOf(cs, n)].entries ELSE NoEntries

\* faulty variant: opening a cache that exists empties it
CachesOpenTruncates(cs, n) ==
    IF n \in NamesOf(cs)
    THEN [cs EXCEPT ![IndexOf(cs, n)].entries = NoEntries]
    ELSE Append(cs, [name |-> n, entries |-> NoEntries])

\* caches.open(name): creates the cache when it does not exist
CachesOpen(cs, n) ==
    IF n \in NamesOf(cs) THEN cs ELSE Append(cs, [name |-> n, entries |-> NoEntries])

\* caches.match(request): the first cache, in creation order, that holds the
\* key answers; a request that is not a GET matches nothing
CachesMatch(cs, key) ==
    LET hits == {i \in 1..Len(cs) : key \in DOMAIN cs[i].entries}
    IN  IF key.method # "GET" \/ hits = {} THEN Undefined
        ELSE cs[CHOOSE i \in hits : \A j \in hits : i <= j].entries[key]

\* faulty variant: an entry that exists is kept, the new response is dropped
CachePutKeepsExisting(cs, n, key, resp) ==
    IF n \notin NamesOf(cs) \/ key \in DOMAIN EntriesOf(cs, n) THEN cs
    ELSE LET i == IndexOf(cs, n)
             old == cs[i].entries
         IN  [cs EXCEPT ![i].entries = [k \in (DOMAIN old) \cup {key} |->
                                            IF k = key THEN resp ELSE old[k]]]

\* cache.put(request, response) on the cache named n: the entry is replaced
\* as a whole
CachePut(cs, n, key, resp) ==
    IF n \notin NamesOf(cs) THEN cs
    ELSE LET i == IndexOf(cs, n)
             old == cs[i].entries
             new == [k \in (DOMAIN old) \cup {key} |-> IF k = key THEN resp ELSE old[k]]
         IN  [cs EXCEPT ![i].entries = new]

\* cache.addAll(urls) with the responses fetched for them
CacheAddAll(cs, n, keys, resp) ==
    IF n \notin NamesOf(cs) THEN cs
    ELSE LET i == IndexOf(cs, n)
             old == cs[i].entries
             new == [k \in (DOMAIN old) \cup keys |-> IF k \in keys THEN resp ELSE old[k]]
         IN  [cs EXCEPT ![i].entries = new]

\* caches.delete(name)
CachesDelete(cs, n) ==
    LET keep == {i \in 1..Len(cs) : cs[i].name # n}
        F[i \in 0..Len(cs)] ==
            IF i = 0 THEN << >>
            ELSE IF i \in keep THEN Append(F[i - 1], cs[i]) ELSE F[i - 1]
    IN  F[Len(cs)]

StaticKeys == {KeyOf("GET", STATIC_ASSETS[i]) : i \in 1..Len(STATIC_ASSETS)}

(* ------------------------------ state ------------------------------------ *)
VARIABLES
    caches,        \* CacheStorage: sequence of [name, entries] in creation order
    lc,            \* position of the worker in its lifecycle
    skipWaiting,   \* self.skipWaiting() has been called
    installLogged, \* the install chain's catch has logged an error
    toDelete,      \* caches.delete calls of activate that have not settled
    deleteFailed,  \* one caches.delete of activate rejected
    deleted,       \* the caches.delete calls of activate that fulfilled, until Promise.all settles
    claimed,       \* self.clients.claim() has been called
    reqs,          \* the fetch events: request, position, locals, outcome
    pageRequests,  \* the requests the controlled pages issue in this run
    superseded     \* position of a request in flight in the worker this one replaces

lifecycleVars == <<lc, skipWaiting, installLogged, toDelete, deleteFailed, deleted, claimed>>
vars == <<caches, lc, skipWaiting, installLogged, toDelete, deleteFailed, deleted, claimed, reqs, pageRequests, superseded>>

NoRequest == [method |-> "", url |-> << >>, destination |-> ""]

IdleSlot ==
    [request |-> NoRequest, pc |-> "idle", strategy |-> "",
     cacheResponse |-> None, networkResponse |-> None,
     result |-> None, trace |-> << >>]

\* what an earlier deployment may have left in CacheStorage
OldResponse == NetResponse(200, "OLD")
InitialCaches ==
    { << >>,
      << [name |-> OBSOLETE_CACHE,
          entries |-> [k \in {KeyOf("GET", <<"/index.html">>), KeyOf("GET", <<"/api/", "menu">>)}
                          |-> OldResponse]] >> }

(* ----------------------------- lifecycle --------------------------------- *)
\* install: caches.open(STATIC_CACHE) settles
InstallOpen ==
    /\ lc = "install_open"
    /\ \/ /\ caches' = CachesOpen(caches, STATIC_CACHE)
          /\ lc' = "install_addAll"
          /\ UNCHANGED installLogged
       \/ \* the open rejects: the chain's catch logs it, waitUntil fulfils
          /\ caches' = caches
          /\ lc' = "installed"
          /\ installLogged' = TRUE
    /\ UNCHANGED <<skipWaiting, toDelete, deleteFailed, deleted, claimed, reqs, pageRequests, superseded>>

\* what the network serves for a manifest URL while the worker installs
InstallResponse == NetResponse(200, BodyNames[1])

\* faulty variant: the assets are added one by one, those fetched are kept
InstallAddAllEach ==
    /\ lc = "install_addAll"
    /\ \E failed \in SUBSET StaticKeys :
          /\ caches' = CacheAddAll(caches, STATIC_CACHE, StaticKeys \ failed, InstallResponse)
          /\ IF failed = {}
             THEN skipWaiting' = TRUE /\ UNCHANGED installLogged
             ELSE installLogged' = TRUE /\ UNCHANGED skipWaiting
    /\ lc' = "installed"
    /\ UNCHANGED <<toDelete, deleteFailed, deleted, claimed, reqs, pageRequests, superseded>>

\* faulty variant: skipWaiting is called in a finally, whatever addAll did
InstallAddAllSkipsAlways ==
    /\ lc = "install_addAll"
    /\ \E failed \in SUBSET StaticKeys :
          IF failed = {}
          THEN /\ caches' = CacheAddAll(caches, STATIC_CACHE, StaticKeys, InstallResponse)
               /\ UNCHANGED installLogged
          ELSE /\ caches' = caches
               /\ installLogged' = TRUE
    /\ skipWaiting' = TRUE
    /\ lc' = "installed"
    /\ UNCHANGED <<toDelete, deleteFailed, deleted, claimed, reqs, pageRequests, superseded>>

\* install: cache.addAll(STATIC_ASSETS) settles, then skipWaiting or the catch
InstallAddAll ==
    /\ lc = "install_addAll"
    /\ \E failed \in SUBSET StaticKeys :
          IF failed = {}
          THEN /\ caches' = CacheAddAll(caches, STATIC_CACHE, StaticKeys, InstallResponse)
               /\ skipWaiting' = TRUE
               /\ UNCHANGED installLogged
          ELSE /\ caches' = caches
               /\ installLogged' = TRUE
               /\ UNCHANGED skipWaiting
    /\ lc' = "installed"
    /\ UNCHANGED <<toDelete, deleteFailed, deleted, claimed, reqs, pageRequests, superseded>>

\* faulty variant: the filter compares with DYNAMIC_CACHE only
IsObsoleteNotDynamic(cacheName) == cacheName # DYNAMIC_CACHE

\* the filter of the activate handler
IsObsolete(cacheName) == cacheName # STATIC_CACHE /\ cacheName # DYNAMIC_CACHE

\* activate: caches.keys() settles and the deletions are started
ActivateKeys ==
    /\ lc = "installed"
    /\ toDelete' = {n \in NamesOf(caches) : IsObsolete(n)}
    /\ lc' = "activating"
    /\ UNCHANGED <<caches, skipWaiting, installLogged, deleteFailed, deleted, claimed, reqs, pageRequests, superseded>>

\* activate: one caches.delete settles
ActivateDelete(n) ==
    /\ n \in toDelete
    /\ toDelete' = toDelete \ {n}
    /\ \/ /\ caches' = CachesDelete(caches, n)
          /\ deleted' = deleted \cup {n}
          /\ UNCHANGED deleteFailed
       \/ /\ caches' = caches
          /\ deleteFailed' = TRUE
          /\ UNCHANGED deleted
    /\ UNCHANGED <<lc, skipWaiting, installLogged, claimed, reqs, pageRequests, superseded>>

\* faulty variant: clients.claim() runs however Promise.all settled
ActivateSettleClaimsAlways ==
    /\ lc = "activating"
    /\ toDelete = {} \/ deleteFailed
    /\ claimed' = TRUE
    /\ deleted' = {}
    /\ lc' = "activated"
    /\ UNCHANGED <<caches, skipWaiting, installLogged, toDelete, deleteFailed, reqs, pageRequests, superseded>>

\* activate: Promise.all settles; clients.claim() runs when it fulfilled, and
\* what the deletions resolved to is dropped
ActivateSettle ==
    /\ lc = "activating"
    /\ toDelete = {} \/ deleteFailed
    /\ claimed' = ~deleteFailed
    /\ deleted' = {}
    /\ lc' = "activated"
    /\ UNCHANGED <<caches, skipWaiting, installLogged, toDelete, deleteFailed, reqs, pageRequests, superseded>>

(* --------------------------- fetch handler ------------------------------- *)
IndexUrl == <<"/index.html">>
AboutUrl == <<"/about.html">>
LogoUrl == <<"/images/logo.png">>
ApiUrl == <<"/api/", "menu">>
FontsUrl == <<"https:", "//fonts.googleapis.com/", "css2?family=Poppins">>
CdnApiUrl == <<"https:", "//cdnjs.cloudflare.com/", "ajax", "/api/", "x.js">>
ExtensionUrl == <<"chrome-extension:", "//abcdef", "/page.js">>

Request(m, u, d) == [method |-> m, url |-> Resolve(u), destination |-> d]

\* the requests that pages under the worker's control issue
Requests ==
    { Request("GET", IndexUrl, "document"),
      Request("GET", AboutUrl, "document"),
      Request("GET", LogoUrl, "image"),
      Request("GET", ApiUrl, ""),
      Request("POST", ApiUrl, ""),
      Request("GET", FontsUrl, "style"),
      Request("GET", CdnApiUrl, "script"),
      Request("GET", ExtensionUrl, "script") }

\* the requests of one run: those of one page of the site
Workloads ==
    { {Request("GET", IndexUrl, "document")},
      {Request("GET", AboutUrl, "document")},
      {Request("GET", ApiUrl, ""), Request("POST", ApiUrl, "")},
      {Request("GET", FontsUrl, "style")},
      {Request("GET", CdnApiUrl, "script"), Request("GET", ExtensionUrl, "script")},
      {Request("GET", LogoUrl, "image")} }

Init ==
    /\ caches \in InitialCaches
    /\ lc = "install_open"
    /\ skipWaiting = FALSE
    /\ installLogged = FALSE
    /\ toDelete = {}
    /\ deleteFailed = FALSE
    /\ deleted = {}
    /\ claimed = FALSE
    /\ reqs = [r \in Slots |-> IdleSlot]
    /\ pageRequests \in Workloads
    /\ superseded = "none"

RequestKey(req) == [method |-> req.method, url |-> req.url]

\* faulty variant: the stale-while-revalidate test is made before the network-first one
ClassifyStaleFirst(u) ==
    IF SomeIncludes(STALE_WHILE_REVALIDATE, u) THEN "staleWhileRevalidate"
    ELSE IF SomeIncludes(NETWORK_FIRST, u) THEN "networkFirst"
    ELSE "cacheFirst"

\* the pattern tests of the handler, in the order the handler makes them
Classify(u) ==
    IF SomeIncludes(NETWORK_FIRST, u) THEN "networkFirst"
    ELSE IF SomeIncludes(STALE_WHILE_REVALIDATE, u) THEN "staleWhileRevalidate"
    ELSE "cacheFirst"

\* faulty variant: the handler without its test of the method
DispatchAnyMethod(req) ==
    IF ~StartsWithHttp(req.url) THEN "passthrough"
    ELSE Classify(req.url)

\* the early returns of the handler, then the classification
Dispatch(req) ==
    IF req.method # "GET" THEN "passthrough"
    ELSE IF ~StartsWithHttp(req.url) THEN "passthrough"
    ELSE Classify(req.url)

\* first step of each strategy: its position and the operation it starts
FirstPc(strategy) ==
    CASE strategy = "cacheFirst" -> "cf_match"
      [] strategy = "networkFirst" -> "nf_fetch"
      [] strategy = "staleWhileRevalidate" -> "swr_open"
      [] OTHER -> "passthrough"

FirstOp(strategy) ==
    CASE strategy = "cacheFirst" -> <<"match">>
      [] strategy = "networkFirst" -> <<"fetch">>
      [] strategy = "staleWhileRevalidate" -> <<"open">>
      [] OTHER -> << >>

\* a page issues a request and the worker's fetch listener runs
FetchEvent(r, req) ==
    /\ lc = "activated"
    /\ req \in pageRequests
    /\ reqs[r].pc = "idle"
    /\ \A q \in 1..(r - 1) : reqs[q].pc # "idle"
    /\ LET strategy == Dispatch(req)
       IN  reqs' = [reqs EXCEPT ![r] =
               [IdleSlot EXCEPT !.request = req,
                                !.strategy = strategy,
                                !.pc = FirstPc(strategy),
                                !.result = IF strategy = "passthrough" THEN None ELSE Pending,
                                !.trace = FirstOp(strategy)]]
    /\ UNCHANGED <<caches, lifecycleVars, pageRequests, superseded>>

\* an event is appended to the request's history
Log(s, e) == [s EXCEPT !.trace = Append(s.trace, e)]
\* the promise handed to respondWith settles with value v
Settle(s, v) == Log([s EXCEPT !.pc = "done", !.result = v], "respond")
\* the request moves to its next await, which starts operation op
Goto(s, pc, op) == Log([s EXCEPT !.pc = pc], op)

(* ------------------------------ cacheFirst ------------------------------- *)
\* faulty variant: the catch block without its branch for documents
CacheFirstCatchSyntheticOnly(s) == Settle(s, OfflineResponse)

\* the catch block of cacheFirst
CacheFirstCatch(s) ==
    IF s.request.destination = "document"
    THEN Goto(s, "cf_fallback", "match")
    ELSE Settle(s, OfflineResponse)

\* faulty variant: the cached response is not returned, the network is asked anyway
CacheFirstLookedUpRevalidates(s, cacheResponse) ==
    Goto([s EXCEPT !.cacheResponse = cacheResponse], "cf_fetch", "fetch")

\* after await caches.match(request): the hit is returned, a miss fetches
CacheFirstLookedUp(s, cacheResponse) ==
    IF Truthy(cacheResponse)
    THEN Settle([s EXCEPT !.cacheResponse = cacheResponse], cacheResponse)
    ELSE Goto([s EXCEPT !.cacheResponse = cacheResponse], "cf_fetch", "fetch")

\* await caches.match(request)
CacheFirstMatch(r) ==
    /\ reqs[r].pc = "cf_match"
    /\ LET s == reqs[r]
       IN  \/ reqs' = [reqs EXCEPT ![r] =
                   CacheFirstLookedUp(s, CachesMatch(caches, RequestKey(s.request)))]
           \/ reqs' = [reqs EXCEPT ![r] = CacheFirstCatch(Log(s, "match_fail"))]
    /\ UNCHANGED <<caches, lifecycleVars, pageRequests, superseded>>

\* faulty variant: the status is not looked at
ShouldCacheAnyStatus(networkResponse) == Truthy(networkResponse)

\* if (networkResponse && networkResponse.status === 200)
ShouldCache(networkResponse) == Truthy(networkResponse) /\ networkResponse.status = 200

\* faulty variant: the response is returned without being stored
CacheFirstFetchedNotStored(s, networkResponse) ==
    Settle([s EXCEPT !.networkResponse = networkResponse], networkResponse)

\* after await fetch(request): a successful response is stored first
CacheFirstFetched(s, networkResponse) ==
    IF ShouldCache(networkResponse)
    THEN Goto([s EXCEPT !.networkResponse = networkResponse], "cf_open", "open")
    ELSE Settle([s EXCEPT !.networkResponse = networkResponse], networkResponse)

\* await fetch(request)
CacheFirstFetch(r) ==
    /\ reqs[r].pc = "cf_fetch"
    /\ LET s == reqs[r]
       IN  \/ \E networkResponse \in NetResponses :
                 reqs' = [reqs EXCEPT ![r] = CacheFirstFetched(Log(s, "fetch_ok"), networkResponse)]
           \/ reqs' = [reqs EXCEPT ![r] = CacheFirstCatch(Log(s, "fetch_fail"))]
    /\ UNCHANGED <<caches, lifecycleVars, pageRequests, superseded>>

\* await caches.open(DYNAMIC_CACHE)
CacheFirstOpen(r) ==
    /\ reqs[r].pc = "cf_open"
    /\ LET s == reqs[r]
       IN  \/ /\ caches' = CachesOpen(caches, DYNAMIC_CACHE)
              /\ reqs' = [reqs EXCEPT ![r] = Goto(s, "cf_put", "put")]
           \/ /\ caches' = caches
              /\ reqs' = [reqs EXCEPT ![r] = CacheFirstCatch(Log(s, "open_fail"))]
    /\ UNCHANGED <<lifecycleVars, pageRequests, superseded>>

\* faulty variant: the response is put into the static cache
CacheFirstPutToStatic(r) ==
    /\ reqs[r].pc = "cf_put"
    /\ LET s == reqs[r]
       IN  \/ /\ caches' = CachePut(caches, STATIC_CACHE, RequestKey(s.request), s.networkResponse)
              /\ reqs' = [reqs EXCEPT ![r] = Settle(s, s.networkResponse)]
           \/ /\ caches' = caches
              /\ reqs' = [reqs EXCEPT ![r] = CacheFirstCatch(Log(s, "put_fail"))]
    /\ UNCHANGED <<lifecycleVars, pageRequests, superseded>>

\* await cache.put(request, networkResponse.clone()); return networkResponse
CacheFirstPut(r) ==
    /\ reqs[r].pc = "cf_put"
    /\ LET s == reqs[r]
       IN  \/ /\ caches' = CachePut(caches, DYNAMIC_CACHE, RequestKey(s.request), s.networkResponse)
              /\ reqs' = [reqs EXCEPT ![r] = Settle(s, s.networkResponse)]
           \/ /\ caches' = caches
              /\ reqs' = [reqs EXCEPT ![r] = CacheFirstCatch(Log(s, "put_fail"))]
    /\ UNCHANGED <<lifecycleVars, pageRequests, superseded>>

\* return caches.match('/index.html')
CacheFirstFallback(r) ==
    /\ reqs[r].pc = "cf_fallback"
    /\ LET s == reqs[r]
       IN  \/ reqs' = [reqs EXCEPT ![r] = Settle(s, CachesMatch(caches, KeyOf("GET", IndexUrl)))]
           \/ reqs' = [reqs EXCEPT ![r] = Settle(Log(s, "match_fail"), Rejected)]
    /\ UNCHANGED <<caches, lifecycleVars, pageRequests, superseded>>

(* ------------------------------ networkFirst ----------------------------- *)
\* the catch block of networkFirst starts with await caches.match(request)
NetworkFirstCatch(s) == Goto(s, "nf_match", "match")

\* faulty variant: the response is returned without being stored
NetworkFirstFetchedNotStored(s, networkResponse) ==
    Settle([s EXCEPT !.networkResponse = networkResponse], networkResponse)

\* after await fetch(request): a successful response is stored first
NetworkFirstFetched(s, networkResponse) ==
    IF ShouldCache(networkResponse)
    THEN Goto([s EXCEPT !.networkResponse = networkResponse], "nf_open", "open")
    ELSE Settle([s EXCEPT !.networkResponse = networkResponse], networkResponse)

\* await fetch(request)
NetworkFirstFetch(r) ==
    /\ reqs[r].pc = "nf_fetch"
    /\ LET s == reqs[r]
       IN  \/ \E networkResponse \in NetResponses :
                 reqs' = [reqs EXCEPT ![r] = NetworkFirstFetched(Log(s, "fetch_ok"), networkResponse)]
           \/ reqs' = [reqs EXCEPT ![r] = NetworkFirstCatch(Log(s, "fetch_fail"))]
    /\ UNCHANGED <<caches, lifecycleVars, pageRequests, superseded>>

\* await caches.open(DYNAMIC_CACHE)
NetworkFirstOpen(r) ==
    /\ reqs[r].pc = "nf_open"
    /\ LET s == reqs[r]
       IN  \/ /\ caches' = CachesOpen(caches, DYNAMIC_CACHE)
              /\ reqs' = [reqs EXCEPT ![r] = Goto(s, "nf_put", "put")]
           \/ /\ caches' = caches
              /\ reqs' = [reqs EXCEPT ![r] = NetworkFirstCatch(Log(s, "open_fail"))]
    /\ UNCHANGED <<lifecycleVars, pageRequests, superseded>>

\* await cache.put(request, networkResponse.clone()); return networkResponse
NetworkFirstPut(r) ==
    /\ reqs[r].pc = "nf_put"
    /\ LET s == reqs[r]
       IN  \/ /\ caches' = CachePut(caches, DYNAMIC_CACHE, RequestKey(s.request), s.networkResponse)
              /\ reqs' = [reqs EXCEPT ![r] = Settle(s, s.networkResponse)]
           \/ /\ caches' = caches
              /\ reqs' = [reqs EXCEPT ![r] = NetworkFirstCatch(Log(s, "put_fail"))]
    /\ UNCHANGED <<lifecycleVars, pageRequests, superseded>>

\* faulty variant: the catch block answers with the synthetic response at once
NetworkFirstLookedUpIgnored(s, cacheResponse) ==
    Settle([s EXCEPT !.cacheResponse = cacheResponse], OfflineResponse)

\* the end of the catch block: the cached response, else the synthetic one
NetworkFirstLookedUp(s, cacheResponse) ==
    Settle([s EXCEPT !.cacheResponse = cacheResponse],
           IF Truthy(cacheResponse) THEN cacheResponse ELSE OfflineResponse)

\* catch: await caches.match(request)
NetworkFirstMatch(r) ==
    /\ reqs[r].pc = "nf_match"
    /\ LET s == reqs[r]
       IN  \/ reqs' = [reqs EXCEPT ![r] =
                   NetworkFirstLookedUp(s, CachesMatch(caches, RequestKey(s.request)))]
           \/ reqs' = [reqs EXCEPT ![r] = Settle(Log(s, "match_fail"), Rejected)]
    /\ UNCHANGED <<caches, lifecycleVars, pageRequests, superseded>>

(* -------------------------- staleWhileRevalidate ------------------------- *)
\* faulty variant: the catch block answers without going to the network
StaleCatchNoFetch(s) == Settle(s, BareOfflineResponse)

\* the catch block: return fetch(request).catch(() => new Response(...))
StaleCatch(s) == Goto(s, "swr_catch_fetch", "fetch")

\* await caches.open(DYNAMIC_CACHE)
StaleOpen(r) ==
    /\ reqs[r].pc = "swr_open"
    /\ LET s == reqs[r]
       IN  \/ /\ caches' = CachesOpen(caches, DYNAMIC_CACHE)
              /\ reqs' = [reqs EXCEPT ![r] = Goto(s, "swr_match", "match")]
           \/ /\ caches' = caches
              /\ reqs' = [reqs EXCEPT ![r] = StaleCatch(Log(s, "open_fail"))]
    /\ UNCHANGED <<lifecycleVars, pageRequests, superseded>>

\* faulty variant: return networkResponsePromise, whatever the cache holds
StaleReturnAwaitsNetwork(s, cacheResponse) == s

\* return cacheResponse || networkResponsePromise, the fetch being started
StaleReturn(s, cacheResponse) ==
    IF Truthy(cacheResponse)
    THEN Log([s EXCEPT !.result = cacheResponse], "respond")
    ELSE s

\* await caches.match(request); then fetch(request) is started and the
\* function returns
StaleMatch(r) ==
    /\ reqs[r].pc = "swr_match"
    /\ LET s == reqs[r]
           cacheResponse == CachesMatch(caches, RequestKey(s.request))
       IN  \/ reqs' = [reqs EXCEPT ![r] =
                   StaleReturn(Goto([s EXCEPT !.cacheResponse = cacheResponse],
                                    "swr_fetch", "fetch"),
                               cacheResponse)]
           \/ reqs' = [reqs EXCEPT ![r] = StaleCatch(Log(s, "match_fail"))]
    /\ UNCHANGED <<caches, lifecycleVars, pageRequests, superseded>>

\* networkResponsePromise settles with v: it is the function's result when
\* no cached response was returned
StaleResolve(s, v) ==
    IF s.result = Pending
    THEN Log([s EXCEPT !.result = v], "respond")
    ELSE s

\* the then-callback of the fetch: the put is started and not awaited
StaleFetched(s, networkResponse) ==
    LET t == [s EXCEPT !.networkResponse = networkResponse]
    IN  IF ShouldCache(networkResponse)
        THEN StaleResolve(Goto(t, "swr_put", "put"), networkResponse)
        ELSE StaleResolve([t EXCEPT !.pc = "done"], networkResponse)

\* the fetch started by staleWhileRevalidate settles; its catch-callback
\* returns null
StaleFetch(r) ==
    /\ reqs[r].pc = "swr_fetch"
    /\ LET s == reqs[r]
       IN  \/ \E networkResponse \in NetResponses :
                 reqs' = [reqs EXCEPT ![r] = StaleFetched(Log(s, "fetch_ok"), networkResponse)]
           \/ reqs' = [reqs EXCEPT ![r] =
                   StaleResolve(Log([s EXCEPT !.pc = "done"], "fetch_fail"), Null)]
    /\ UNCHANGED <<caches, lifecycleVars, pageRequests, superseded>>

\* the put that nothing awaits settles
StalePut(r) ==
    /\ reqs[r].pc = "swr_put"
    /\ LET s == reqs[r]
       IN  \/ /\ caches' = CachePut(caches, DYNAMIC_CACHE, RequestKey(s.request), s.networkResponse)
              /\ reqs' = [reqs EXCEPT ![r] = Goto(s, "done", "put_ok")]
           \/ /\ caches' = caches
              /\ reqs' = [reqs EXCEPT ![r] = Goto(s, "done", "put_fail")]
    /\ UNCHANGED <<lifecycleVars, pageRequests, superseded>>

\* the fetch of the catch block settles
StaleCatchFetch(r) ==
    /\ reqs[r].pc = "swr_catch_fetch"
    /\ LET s == reqs[r]
       IN  \/ \E networkResponse \in NetResponses :
                 reqs' = [reqs EXCEPT ![r] =
                     Settle(Log([s EXCEPT !.networkResponse = networkResponse], "fetch_ok"),
                            networkResponse)]
           \/ reqs' = [reqs EXCEPT ![r] = Settle(Log(s, "fetch_fail"), BareOfflineResponse)]
    /\ UNCHANGED <<caches, lifecycleVars, pageRequests, superseded>>

(* ---------------------------- superseded worker -------------------------- *)
\* The worker this one replaces runs the same cacheFirst with its own
\* DYNAMIC_CACHE; one of its requests got its response from the network before
\* this worker was installed and has its two cache steps still to run.
SupersededKey == KeyOf("GET", ApiUrl)

\* await caches.open(DYNAMIC_CACHE) in the superseded worker
SupersededOpen ==
    /\ superseded = "open"
    /\ caches' = CachesOpen(caches, OBSOLETE_CACHE)
    /\ superseded' = "put"
    /\ UNCHANGED <<lifecycleVars, reqs, pageRequests>>

\* await cache.put(request, networkResponse.clone()) in the superseded worker
SupersededPut ==
    /\ superseded = "put"
    /\ caches' = CachePut(caches, OBSOLETE_CACHE, SupersededKey, OldResponse)
    /\ superseded' = "done"
    /\ UNCHANGED <<lifecycleVars, reqs, pageRequests>>

(* --------------------------- specification ------------------------------- *)
Next ==
    \/ InstallOpen
    \/ InstallAddAll
    \/ ActivateKeys
    \/ \E n \in CacheNames : ActivateDelete(n)
    \/ ActivateSettle
    \/ \E r \in Slots, req \in Requests : FetchEvent(r, req)
    \/ \E r \in Slots : CacheFirstMatch(r)
    \/ \E r \in Slots : CacheFirstFetch(r)
    \/ \E r \in Slots : CacheFirstOpen(r)
    \/ \E r \in Slots : CacheFirstPut(r)
    \/ \E r \in Slots : CacheFirstFallback(r)
    \/ \E r \in Slots : NetworkFirstFetch(r)
    \/ \E r \in Slots : NetworkFirstOpen(r)
    \/ \E r \in Slots : NetworkFirstPut(r)
    \/ \E r \in Slots : NetworkFirstMatch(r)
    \/ \E r \in Slots : StaleOpen(r)
    \/ \E r \in Slots : StaleMatch(r)
    \/ \E r \in Slots : StaleFetch(r)
    \/ \E r \in Slots : StalePut(r)
    \/ \E r \in Slots : StaleCatchFetch(r)

Spec == Init /\ [][Next]_vars

\* the step of fetch event r that its pending operation settling allows
RequestStep(r) ==
    \/ CacheFirstMatch(r)
    \/ CacheFirstFetch(r)
    \/ CacheFirstOpen(r)
    \/ CacheFirstPut(r)
    \/ CacheFirstFallback(r)
    \/ NetworkFirstFetch(r)
    \/ NetworkFirstOpen(r)
    \/ NetworkFirstPut(r)
    \/ NetworkFirstMatch(r)
    \/ StaleOpen(r)
    \/ StaleMatch(r)
    \/ StaleFetch(r)
    \/ StalePut(r)
    \/ StaleCatchFetch(r)

\* every network fetch and every cache operation of a request eventually
\* settles, and the continuation that awaits it then runs
SpecFair == Spec /\ \A r \in Slots : WF_vars(RequestStep(r))

\* the same worker, installed while a request of the worker it replaces is
\* still in flight
InitSuperseded ==
    /\ caches \in InitialCaches
    /\ Len(caches) > 0
    /\ lc = "install_open"
    /\ skipWaiting = FALSE
    /\ installLogged = FALSE
    /\ toDelete = {}
    /\ deleteFailed = FALSE
    /\ deleted = {}
    /\ claimed = FALSE
    /\ reqs = [r \in Slots |-> IdleSlot]
    /\ pageRequests \in Workloads
    /\ superseded = "open"

NextSuperseded ==
    \/ Next
    \/ SupersededOpen
    \/ SupersededPut

SpecSuperseded == InitSuperseded /\ [][NextSuperseded]_vars

(* ------------------------------- claims ---------------------------------- *)
Strategies == {"cacheFirst", "networkFirst", "staleWhileRevalidate"}
Handled(r) == reqs[r].strategy \in Strategies
KeyOfSlot(r) == RequestKey(reqs[r].request)
Occurs(e, tr) == \E i \in 1..Len(tr) : tr[i] = e
First(e, tr) == CHOOSE i \in 1..Len(tr) : tr[i] = e /\ \A j \in 1..(i - 1) : tr[j] # e
\* none of the request's cache operations rejected
CacheOpsSucceeded(tr) ==
    ~Occurs("match_fail", tr) /\ ~Occurs("open_fail", tr) /\ ~Occurs("put_fail", tr)

\* C1: for every intercepted GET http(s) request, under every strategy and
\* every combination of cache hit or miss, network success or failure and
\* cache-operation failure, the promise handed to respondWith resolves to a
\* response object: never to null or undefined, and it never rejects.
C1_RespondsWithResponse ==
    \A r \in Slots : Handled(r) => reqs[r].result.kind \in {"pending", "response"}

\* C2: a processed GET request is classified by its URL alone: NetworkFirst
\* when the URL contains a NETWORK_FIRST pattern (also when it contains a
\* STALE_WHILE_REVALIDATE pattern too), else StaleWhileRevalidate when it
\* contains one of those patterns, else CacheFirst; and the step that
\* classifies it reads no cache entry and changes no cache.
C2_StrategyFor(u) ==
    CASE \E j \in 1..Len(NETWORK_FIRST) : Includes(u, NETWORK_FIRST[j]) -> "networkFirst"
      [] /\ \A j \in 1..Len(NETWORK_FIRST) : ~Includes(u, NETWORK_FIRST[j])
         /\ \E j \in 1..Len(STALE_WHILE_REVALIDATE) : Includes(u, STALE_WHILE_REVALIDATE[j])
           -> "staleWhileRevalidate"
      [] OTHER -> "cacheFirst"

C3_NonGetUntouched ==
    /\ \A r \in Slots :
          reqs[r].request.method \notin {"", "GET"} =>
              /\ reqs[r].pc = "passthrough"
              /\ reqs[r].strategy = "passthrough"
              /\ reqs[r].result = None
              /\ reqs[r].trace = << >>
              /\ reqs[r].cacheResponse = None
              /\ reqs[r].networkResponse = None
    /\ \A i \in 1..Len(caches) : \A k \in DOMAIN caches[i].entries : k.method = "GET"

C3_Witness ==
    /\ \E r \in Slots : reqs[r].request.method = "POST" /\ reqs[r].pc = "passthrough"
    /\ \E r \in Slots : reqs[r].request.method = "GET" /\ reqs[r].pc = "done"
    /\ DYNAMIC_CACHE \in NamesOf(caches)

\* a request's strategy function returns in this step
Returns(r) == reqs[r].result = Pending /\ reqs'[r].result # Pending
\* the entry the dynamic cache holds for a key
DynamicHolds(cs, k, v) ==
    /\ DYNAMIC_CACHE \in NamesOf(cs)
    /\ k \in DOMAIN EntriesOf(cs, DYNAMIC_CACHE)
    /\ EntriesOf(cs, DYNAMIC_CACHE)[k] = v

\* C4: when some cache holds an entry for K at the time cacheFirst looks it
\* up (and the lookup finds it), cacheFirst returns that entry, starts no
\* network fetch and writes to no cache; a request that has returned does
\* nothing more.
C4_CacheHitZeroNetwork ==
    [][\A r \in Slots :
          /\ ( /\ reqs[r].pc = "cf_match"
               /\ reqs'[r].pc # "cf_match"
               /\ ~Occurs("match_fail", reqs'[r].trace)
               /\ Truthy(CachesMatch(caches, KeyOfSlot(r))) ) =>
                 /\ reqs'[r].result = CachesMatch(caches, KeyOfSlot(r))
                 /\ reqs'[r].pc = "done"
                 /\ reqs'[r].trace = <<"match", "respond">>
                 /\ caches' = caches
          /\ ( reqs[r].strategy = "cacheFirst" /\ reqs[r].pc = "done" ) =>
                 reqs'[r] = reqs[r]]_vars

C4_Witness ==
    \E r \in Slots :
        /\ reqs[r].strategy = "cacheFirst"
        /\ reqs[r].pc = "done"
        /\ Truthy(reqs[r].cacheResponse)
        /\ reqs[r].result = reqs[r].cacheResponse
        /\ ~Occurs("fetch", reqs[r].trace)

\* C5: when cacheFirst misses and the network returns a response with a
\* success status (and the cache operations succeed), the caller receives
\* exactly the network response, and in the state in which cacheFirst
\* returns the dynamic cache holds K mapped to that response.
C5_MissNetworkSuccessStored ==
    [][\A r \in Slots :
          ( /\ reqs'[r].strategy = "cacheFirst"
            /\ Returns(r)
            /\ ShouldCache(reqs'[r].networkResponse)
            /\ CacheOpsSucceeded(reqs'[r].trace) ) =>
              /\ reqs'[r].result = reqs'[r].networkResponse
              /\ reqs'[r].result \in NetResponses
              /\ DynamicHolds(caches', KeyOfSlot(r), reqs'[r].result)]_vars

C5_Witness ==
    \E r \in Slots :
        /\ reqs[r].strategy = "cacheFirst"
        /\ reqs[r].pc = "done"
        /\ ~Truthy(reqs[r].cacheResponse)
        /\ reqs[r].result = NetResponse(200, BodyNames[2])
        /\ DynamicHolds(caches, KeyOfSlot(r), reqs[r].result)

\* C6: when cacheFirst's lookup misses and the network fetch fails, it
\* returns what caches.match('/index.html') finds (the cached root document)
\* if the request's destination is a document, and otherwise the synthetic
\* response 503 "Service Unavailable", text/plain, "Offline"; it returns only
\* after that fallback was attempted.
C6_OfflineFallback ==
    [][\A r \in Slots :
          ( /\ reqs'[r].strategy = "cacheFirst"
            /\ Returns(r)
            /\ Occurs("fetch_fail", reqs'[r].trace) ) =>
              IF reqs[r].request.destination = "document"
              THEN /\ reqs[r].pc = "cf_fallback"
                   /\ ~Occurs("match_fail", reqs'[r].trace) =>
                          reqs'[r].result = CachesMatch(caches, KeyOf("GET", <<"/index.html">>))
              ELSE /\ reqs'[r].result.status = 503
                   /\ reqs'[r].result.statusText = "Service Unavailable"
                   /\ reqs'[r].result.contentType = "text/plain"
                   /\ reqs'[r].result.body = "Offline"]_vars

C6_Witness ==
    \E r \in Slots :
        /\ reqs[r].strategy = "cacheFirst"
        /\ reqs[r].request.destination = "document"
        /\ reqs[r].pc = "done"
        /\ Occurs("fetch_fail", reqs[r].trace)
        /\ reqs[r].result = InstallResponse
        /\ reqs[r].request.url # Resolve(<<"/index.html">>)

\* a step in which some request's cache.put for key k settles
PutSettles(k) ==
    \E q \in Slots :
        /\ reqs[q].pc \in {"cf_put", "nf_put", "swr_put"}
        /\ reqs'[q].pc # reqs[q].pc
        /\ KeyOfSlot(q) = k
\* a step that deletes a cache
DeletesCache == \E n \in NamesOf(caches) : n \notin NamesOf(caches')
\* the caches.delete calls of activate all succeeded
DeletionsSucceeded == ~deleteFailed

\* C7: whenever the network fetch for K succeeds with a success status (and
\* the cache operations succeed, those of activation included), networkFirst
\* returns exactly the network response, a lookup for K across all caches
\* made when networkFirst has returned yields that response, and what a
\* lookup for K yields changes afterwards only by a put for K or by the
\* deletion of a cache.
C7_NetworkFirstRoundTrip ==
    [][\A r \in Slots :
          /\ ( /\ reqs'[r].strategy = "networkFirst"
               /\ Returns(r)
               /\ Occurs("fetch_ok", reqs'[r].trace)
               /\ ShouldCache(reqs'[r].networkResponse)
               /\ CacheOpsSucceeded(reqs'[r].trace)
               /\ DeletionsSucceeded ) =>
                 /\ reqs'[r].result = reqs'[r].networkResponse
                 /\ reqs'[r].result \in NetResponses
                 /\ CachesMatch(caches', KeyOfSlot(r)) = reqs'[r].result
          /\ ( /\ reqs[r].strategy = "networkFirst"
               /\ reqs[r].pc = "done"
               /\ CachesMatch(caches', KeyOfSlot(r)) # CachesMatch(caches, KeyOfSlot(r)) ) =>
                 PutSettles(KeyOfSlot(r)) \/ DeletesCache]_vars

C7_Witness ==
    \E r \in Slots :
        /\ reqs[r].strategy = "networkFirst"
        /\ reqs[r].pc = "done"
        /\ reqs[r].result = NetResponse(200, BodyNames[2])
        /\ CachesMatch(caches, KeyOfSlot(r)) = reqs[r].result
        /\ \E q \in Slots : q # r /\ reqs[q].pc = "done" /\ reqs[q].result = NetResponse(200, BodyNames[1])

\* C8: networkFirst uses the cache as a fallback only: it looks nothing up
\* before its network fetch has failed; after a failure it returns the
\* entry cached for K if some cache holds one, and otherwise the synthetic
\* response 503 "Offline" (the cache operations succeeding).
C8_CacheOnlyAfterFetchFailure ==
    [][\A r \in Slots :
          ( reqs'[r].strategy = "networkFirst" /\ CacheOpsSucceeded(reqs'[r].trace) ) =>
              /\ Occurs("match", reqs'[r].trace) =>
                    /\ Occurs("fetch_fail", reqs'[r].trace)
                    /\ First("fetch_fail", reqs'[r].trace) < First("match", reqs'[r].trace)
              /\ ~Occurs("fetch_fail", reqs'[r].trace) => reqs'[r].cacheResponse = None
              /\ ( Returns(r) /\ Occurs("fetch_fail", reqs'[r].trace) ) =>
                    /\ reqs[r].pc = "nf_match"
                    /\ reqs'[r].result =
                          IF Truthy(CachesMatch(caches, KeyOfSlot(r)))
                          THEN CachesMatch(caches, KeyOfSlot(r))
                          ELSE OfflineResponse
                    /\ ~Truthy(CachesMatch(caches, KeyOfSlot(r))) =>
                          reqs'[r].result.status = 503 /\ reqs'[r].result.body = "Offline"]_vars

C8_Witness ==
    \E r \in Slots :
        /\ reqs[r].strategy = "networkFirst"
        /\ reqs[r].pc = "done"
        /\ Occurs("fetch_fail", reqs[r].trace)
        /\ reqs[r].result = NetResponse(200, BodyNames[2])
        /\ \E q \in Slots :
              /\ q # r
              /\ reqs[q].pc = "done"
              /\ Occurs("fetch_ok", reqs[q].trace)
              /\ reqs[q].result = reqs[r].result

\* C9: for every key K handled by staleWhileRevalidate that has a cached
\* entry, in whichever cache holds it (the static cache filled at install
\* included), and for which the network returns a success response with
\* different bytes, staleWhileRevalidate returns the stale entry, and once
\* the background fetch and its put have settled a lookup for K across all
\* caches returns the new response.
C9_TwoPhaseFreshness ==
    [][\A r \in Slots :
          ( /\ reqs[r].strategy = "staleWhileRevalidate"
            /\ reqs[r].pc = "swr_put"
            /\ reqs'[r].pc = "done"
            /\ Occurs("put_ok", reqs'[r].trace)
            /\ Truthy(reqs[r].cacheResponse)
            /\ reqs[r].networkResponse.body # reqs[r].cacheResponse.body ) =>
              /\ reqs'[r].result = reqs[r].cacheResponse
              /\ CachesMatch(caches', KeyOfSlot(r)) = reqs[r].networkResponse]_vars

\* C10: when a cached copy of K exists, staleWhileRevalidate returns it in
\* the step in which the lookup settles, while its network fetch is still
\* pending; what was returned is not changed by the fetch or the put
\* settling later, failing included.
C10_HitNeverWaitsForNetwork ==
    [][\A r \in Slots :
          /\ ( /\ reqs[r].pc = "swr_match"
               /\ reqs'[r].pc # "swr_match"
               /\ ~Occurs("match_fail", reqs'[r].trace)
               /\ Truthy(CachesMatch(caches, KeyOfSlot(r))) ) =>
                 /\ reqs'[r].result = CachesMatch(caches, KeyOfSlot(r))
                 /\ reqs'[r].pc = "swr_fetch"
                 /\ ~Occurs("fetch_ok", reqs'[r].trace)
                 /\ ~Occurs("fetch_fail", reqs'[r].trace)
          /\ ( reqs[r].strategy = "staleWhileRevalidate" /\ reqs[r].result # Pending ) =>
                 reqs'[r].result = reqs[r].result]_vars

C10_Witness ==
    \E r \in Slots :
        /\ reqs[r].strategy = "staleWhileRevalidate"
        /\ Truthy(reqs[r].cacheResponse)
        /\ reqs[r].result = reqs[r].cacheResponse
        /\ reqs[r].pc = "done"
        /\ Occurs("fetch_fail", reqs[r].trace)
        /\ First("respond", reqs[r].trace) < First("fetch_fail", reqs[r].trace)

\* C11: when staleWhileRevalidate finds no cached copy, the caller receives
\* the outcome of the network fetch: the network response when the fetch
\* succeeds and, when it fails, a fallback response (never an error, never an
\* empty value).
C11_MissReceivesFetchOutcome ==
    \A r \in Slots :
        ( /\ reqs[r].strategy = "staleWhileRevalidate"
          /\ reqs[r].cacheResponse = Undefined ) =>
            /\ Occurs("fetch_ok", reqs[r].trace) => reqs[r].result = reqs[r].networkResponse
            /\ Occurs("fetch_fail", reqs[r].trace) => reqs[r].result.kind = "response"

Count(e, tr) == Cardinality({i \in 1..Len(tr) : tr[i] = e})

\* C12 as stated: staleWhileRevalidate starts exactly one network fetch per
\* fetch event on every path (hit, miss, open or lookup throwing), and when
\* that fetch succeeds with status 200 its response is written to the dynamic
\* cache: a handled request whose fetch returned 200 has issued a put.
C12_OneFetchEveryPathWritten ==
    \A r \in Slots :
        reqs[r].strategy = "staleWhileRevalidate" =>
            /\ Count("fetch", reqs[r].trace) <= 1
            /\ ( reqs[r].pc = "done" /\ ShouldCache(reqs[r].networkResponse) ) =>
                  Occurs("put", reqs[r].trace)

\* C12, amended: staleWhileRevalidate starts exactly one network fetch per
\* fetch event on every path: none before the lookup has settled, one from
\* then on, whether the lookup hit, missed or threw (the open throwing
\* included). When that fetch succeeds with status 200 after a lookup that
\* settled, a put of its response into the dynamic cache is started, hit or
\* miss, which leaves the dynamic cache holding that response when it
\* succeeds; on the path where the open or the lookup threw, the response of
\* the single fetch is returned and no cache is changed.
C12_OneFetchPerEvent ==
    [][\A r \in Slots :
          reqs'[r].strategy = "staleWhileRevalidate" =>
              /\ Count("fetch", reqs'[r].trace) =
                     (IF reqs'[r].pc \in {"swr_open", "swr_match"} THEN 0 ELSE 1)
              /\ ( /\ reqs[r].pc = "swr_fetch"
                    /\ reqs'[r].pc # "swr_fetch"
                    /\ ShouldCache(reqs'[r].networkResponse) ) =>
                      reqs'[r].pc = "swr_put"
              /\ ( /\ reqs[r].pc = "swr_put"
                    /\ Occurs("put_ok", reqs'[r].trace) ) =>
                      DynamicHolds(caches', KeyOfSlot(r), reqs[r].networkResponse)
              /\ ( /\ reqs[r].pc = "swr_catch_fetch"
                    /\ reqs'[r].pc # "swr_catch_fetch" ) =>
                      /\ caches' = caches
                      /\ reqs'[r].pc = "done"
                      /\ Occurs("fetch_ok", reqs'[r].trace) =>
                             reqs'[r].result = reqs'[r].networkResponse]_vars

C12_Witness ==
    \E r, q \in Slots :
        /\ reqs[r].strategy = "staleWhileRevalidate"
        /\ Truthy(reqs[r].cacheResponse)
        /\ reqs[r].pc = "done"
        /\ Count("fetch", reqs[r].trace) = 1
        /\ DynamicHolds(caches, KeyOfSlot(r), reqs[r].networkResponse)
        /\ reqs[q].strategy = "staleWhileRevalidate"
        /\ Occurs("open_fail", reqs[q].trace)
        /\ reqs[q].pc = "done"
        /\ Count("fetch", reqs[q].trace) = 1
        /\ ShouldCache(reqs[q].networkResponse)
        /\ ~Occurs("put", reqs[q].trace)

CurrentNames == {STATIC_CACHE, DYNAMIC_CACHE}

AssetFailed == installLogged /\ STATIC_CACHE \in NamesOf(caches)

\* C14: when an asset of the manifest fails to fetch, the install step
\* fails: the promise given to waitUntil does not fulfil, and the worker
\* never becomes installed (waiting), activating or activated.
C14_FailedInstallNeverProceeds ==
    AssetFailed => lc \notin {"installed", "activating", "activated"}

StaticUrls == DOMAIN EntriesOf(caches, STATIC_CACHE)
InstallSettled == lc \notin {"install_open", "install_addAll"}

\* C15: the static cache, empty when the install starts, never holds a
\* strict non-empty subset of the manifest: it holds no entry until addAll
\* has succeeded and after an install in which an asset failed, and an entry
\* for every manifest URL after an install that succeeded.
C15_InstallAllOrNothing ==
    /\ StaticUrls = {} \/ StaticUrls = StaticKeys
    /\ ~InstallSettled => StaticUrls = {}
    /\ installLogged => StaticUrls = {}
    /\ (InstallSettled /\ ~installLogged) => StaticUrls = StaticKeys

C15_Witness ==
    /\ AssetFailed
    /\ StaticUrls = {}
    /\ \E r \in Slots : reqs[r].pc = "done" /\ Occurs("put_ok", reqs[r].trace)

\* what the caller of a strategy gets when nothing fails after the fetch
ExpectedResult(r) ==
    IF reqs[r].strategy = "staleWhileRevalidate" /\ Truthy(reqs[r].cacheResponse)
    THEN reqs[r].cacheResponse
    ELSE reqs[r].networkResponse

\* C16: in every strategy, when the put of a fetched 200 response into the
\* dynamic cache fails, the caller still receives the response already
\* obtained (the network response; the cached copy on a stale-while-
\* revalidate hit), not an offline fallback and not an error.
C16_PutFailureNeverFailsRead ==
    \A r \in Slots :
        ( /\ Handled(r)
          /\ Occurs("put_fail", reqs[r].trace)
          /\ reqs[r].result # Pending ) =>
            reqs[r].result = ExpectedResult(r)

\* the request wrote nothing after its fetch: no put, and no open of the
\* dynamic cache once the fetch was started
WroteNothing(tr) ==
    /\ ~Occurs("put", tr)
    /\ \A i \in 1..Len(tr) : tr[i] = "open" => i < First("fetch", tr)

\* C17: every entry of every cache holds a response with status 200 (so
\* neither a network response with another status nor a synthetic 503 is
\* ever stored), and a request whose fetch returned another status, or
\* failed, writes nothing.
C17_NoCachePoisoning ==
    /\ \A i \in 1..Len(caches) : \A k \in DOMAIN caches[i].entries :
          /\ caches[i].entries[k].kind = "response"
          /\ caches[i].entries[k].status = 200
    /\ \A r \in Slots :
          ( /\ Handled(r)
            /\ \/ Truthy(reqs[r].networkResponse) /\ reqs[r].networkResponse.status # 200
               \/ Occurs("fetch_fail", reqs[r].trace) ) =>
              WroteNothing(reqs[r].trace)

C17_Witness ==
    \E r, q \in Slots :
        /\ reqs[r].pc = "done"
        /\ Truthy(reqs[r].networkResponse)
        /\ reqs[r].networkResponse.status = 404
        /\ reqs[r].result = reqs[r].networkResponse
        /\ reqs[q].pc = "done"
        /\ reqs[q].result = OfflineResponse
        /\ KeyOfSlot(r) = KeyOfSlot(q)
        /\ \A i \in 1..Len(caches) : KeyOfSlot(r) \notin DOMAIN caches[i].entries

\* C18: once the activation has completed (its deletions fulfilled and the
\* pages claimed), every live cache is named STATIC_CACHE or DYNAMIC_CACHE,
\* whatever requests run meanwhile, those still in flight in the superseded
\* worker included.
C18_NoStaleCacheAfterActivation ==
    (lc = "activated" /\ claimed) => NamesOf(caches) \subseteq CurrentNames

\* C19: clients.claim() is called only when the activation settles and only
\* after every deletion it started has fulfilled: while the pages are claimed
\* no deletion is pending, none has failed and no obsolete cache exists; when
\* a deletion failed the pages are never claimed.
C19_ClaimAfterDeletions ==
    /\ claimed => /\ lc = "activated"
                  /\ toDelete = {}
                  /\ ~deleteFailed
                  /\ \A n \in NamesOf(caches) : n \notin ObsoleteNames
    /\ (lc = "activated" /\ ~deleteFailed) => claimed

C19_Witness ==
    /\ lc = "activated"
    /\ deleteFailed
    /\ ~claimed
    /\ OBSOLETE_CACHE \in NamesOf(caches)
    /\ \E r \in Slots : reqs[r].pc = "done"

\* C20: skipWaiting is called exactly when the pre-warming succeeded: it has
\* been called only if every manifest URL is stored in the static cache, it
\* has been called once the install chain has settled with them stored, and
\* it is never called by an install whose catch ran.
C20_SkipWaitingIffPrewarmed ==
    /\ skipWaiting => (StaticUrls = StaticKeys /\ ~installLogged)
    /\ (InstallSettled /\ StaticUrls = StaticKeys) => skipWaiting
    /\ installLogged => ~skipWaiting

C20_Witness ==
    /\ lc = "installed"
    /\ skipWaiting
    /\ StaticUrls = StaticKeys
    /\ \A k \in StaticKeys : EntriesOf(caches, STATIC_CACHE)[k] = InstallResponse

\* the operation e of the request has settled before its operation f started
SettledBefore(e, f, tr) ==
    Occurs(f, tr) =>
        \E i \in 1..Len(tr) :
            /\ tr[i] \in {e \o "_ok", e \o "_fail"}
            /\ i < First(f, tr)

\* C21: within one request, cacheFirst starts its fetch only when its cache
\* lookup has completed; networkFirst looks the cache up only when its fetch
\* has settled; and staleWhileRevalidate starts its fetch without waiting
\* for its lookup: while the lookup is pending the fetch has been started.
C21_StepOrdering ==
    \A r \in Slots :
        /\ reqs[r].strategy = "cacheFirst" =>
              (Occurs("fetch", reqs[r].trace) =>
                  /\ reqs[r].pc # "cf_match"
                  /\ First("match", reqs[r].trace) < First("fetch", reqs[r].trace))
        /\ reqs[r].strategy = "networkFirst" =>
              SettledBefore("fetch", "match", reqs[r].trace)
        /\ reqs[r].strategy = "staleWhileRevalidate" =>
              (reqs[r].pc = "swr_match" => Occurs("fetch", reqs[r].trace))

PutPcs == {"cf_put", "nf_put", "swr_put"}

\* C24: in each strategy the cache.put a request triggers has completed
\* before the request's response is delivered: once the handler's promise
\* has resolved, no put of the request is pending and none is started.
C24_EveryWriteAwaited ==
    \A r \in Slots :
        (Handled(r) /\ reqs[r].result # Pending) =>
            /\ reqs[r].pc \notin PutPcs
            /\ \A i \in 1..Len(reqs[r].trace) :
                  reqs[r].trace[i] = "put" => i < First("respond", reqs[r].trace)

\* what the install stored in the static cache
InstalledEntries ==
    IF skipWaiting THEN [k \in StaticKeys |-> InstallResponse] ELSE NoEntries

\* C26: request handling never modifies the static cache: whatever requests
\* have been handled, the static cache holds exactly the entries the install
\* stored (none when it failed), and a cache that an earlier deployment left
\* holds what it held; the writes of the strategies go to the dynamic cache.
C26_StaticCacheOnlyByInstall ==
    /\ InstallSettled => EntriesOf(caches, STATIC_CACHE) = InstalledEntries
    /\ \A i \in 1..Len(caches) :
          caches[i].name \in ObsoleteNames => \E c \in InitialCaches : c = <<caches[i]>>

C26_Witness ==
    \E r \in Slots :
        /\ reqs[r].pc = "done"
        /\ KeyOfSlot(r) \in StaticKeys
        /\ skipWaiting
        /\ EntriesOf(caches, STATIC_CACHE) = InstalledEntries
        /\ DynamicHolds(caches, KeyOfSlot(r), reqs[r].networkResponse)
        /\ reqs[r].networkResponse # InstallResponse

\* the put of request r settles in this step, and it succeeded
PutSucceeds(r) ==
    /\ reqs[r].pc \in PutPcs
    /\ reqs'[r].pc \notin PutPcs
    /\ ~Occurs("put_fail", reqs'[r].trace)
\* the put of request r has succeeded
PutDone(r) ==
    /\ reqs[r].pc = "done"
    /\ Occurs("put", reqs[r].trace)
    /\ ~Occurs("put_fail", reqs[r].trace)

\* C22: a cache that holds an entry for a key holds one for that key in
\* every later state in which the cache exists; an entry changes only by
\* being replaced with the whole response of a put for its key; and a cache
\* disappears only in a deletion of the activation, never in a step of a
\* strategy.
C22_RemovedOnlyWithNamespace ==
    [][/\ \A i \in 1..Len(caches) :
             caches[i].name \in NamesOf(caches') =>
                 \A k \in DOMAIN caches[i].entries :
                     /\ k \in DOMAIN EntriesOf(caches', caches[i].name)
                     /\ \/ EntriesOf(caches', caches[i].name)[k] = caches[i].entries[k]
                        \/ \E r \in Slots :
                              /\ PutSucceeds(r)
                              /\ KeyOfSlot(r) = k
                              /\ EntriesOf(caches', caches[i].name)[k] = reqs[r].networkResponse
       /\ DeletesCache => (lc = "activating" /\ reqs' = reqs)]_vars

C22_Witness ==
    \E r \in Slots :
        /\ reqs[r].strategy = "networkFirst"
        /\ PutDone(r)
        /\ KeyOfSlot(r) \in DOMAIN EntriesOf(caches, DYNAMIC_CACHE)
        /\ EntriesOf(caches, DYNAMIC_CACHE)[KeyOfSlot(r)] # reqs[r].networkResponse
        /\ OBSOLETE_CACHE \notin NamesOf(caches)

\* C23: same-key races are last-write-wins: the step in which a put for K
\* completes leaves the dynamic cache holding, in full, the response of that
\* put, whatever other requests for K are in flight, and every other step
\* leaves the entry for K as it is; so when all puts have settled the entry
\* is the response of the put that completed last.
C23_LastWriteWins ==
    [][/\ \A r \in Slots :
             PutSucceeds(r) =>
                 DynamicHolds(caches', KeyOfSlot(r), reqs[r].networkResponse)
       /\ \A k \in DOMAIN EntriesOf(caches, DYNAMIC_CACHE) :
             (~\E r \in Slots : PutSucceeds(r) /\ KeyOfSlot(r) = k) =>
                 DynamicHolds(caches', k, EntriesOf(caches, DYNAMIC_CACHE)[k])]_vars

C23_Witness ==
    \E r, q \in Slots :
        /\ r # q
        /\ KeyOfSlot(r) = KeyOfSlot(q)
        /\ reqs[r].strategy = "cacheFirst"
        /\ reqs[r].cacheResponse = Undefined
        /\ reqs[q].cacheResponse = Undefined
        /\ PutDone(r)
        /\ PutDone(q)
        /\ reqs[r].networkResponse # reqs[q].networkResponse
        /\ DynamicHolds(caches, KeyOfSlot(q), reqs[q].networkResponse)

\* the keys that cacheFirst handles
CacheFirstKey(k) == C2_StrategyFor(k.url) = "cacheFirst"

\* C27 as stated: for a key that only cacheFirst handles, once the dynamic
\* cache holds an entry for it the entry never changes, whatever requests
\* for the key are handled concurrently.
C27_CacheFirstWritesOnce ==
    [][\A k \in DOMAIN EntriesOf(caches, DYNAMIC_CACHE) :
          CacheFirstKey(k) =>
              DynamicHolds(caches', k, EntriesOf(caches, DYNAMIC_CACHE)[k])]_vars

\* C27, amended: for a key that only cacheFirst handles, once the dynamic
\* cache holds an entry for it, a request that looks the key up fetches
\* nothing and writes nothing, and the entry changes only by the put of a
\* request that had missed the cache before the entry was stored.
C27_NoWriteAfterStoredLookup ==
    [][\A k \in DOMAIN EntriesOf(caches, DYNAMIC_CACHE) :
          CacheFirstKey(k) =>
              /\ \A r \in Slots :
                    ( /\ KeyOfSlot(r) = k
                      /\ reqs[r].pc = "cf_match"
                      /\ reqs'[r].pc # "cf_match" ) =>
                        /\ reqs'[r].pc \in {"done", "cf_fallback"}
                        /\ ~Occurs("fetch", reqs'[r].trace)
              /\ ~DynamicHolds(caches', k, EntriesOf(caches, DYNAMIC_CACHE)[k]) =>
                    \E r \in Slots :
                        /\ KeyOfSlot(r) = k
                        /\ reqs[r].pc = "cf_put"
                        /\ reqs[r].cacheResponse = Undefined
                        /\ PutSucceeds(r)
                        /\ DynamicHolds(caches', k, reqs[r].networkResponse)]_vars

C27_Witness ==
    \E r, q \in Slots :
        /\ r # q
        /\ KeyOfSlot(r) = KeyOfSlot(q)
        /\ CacheFirstKey(KeyOfSlot(r))
        /\ reqs[r].cacheResponse = Undefined
        /\ PutDone(r)
        /\ reqs[q].pc = "done"
        /\ reqs[q].cacheResponse = reqs[r].networkResponse
        /\ reqs[q].result = reqs[r].networkResponse
        /\ ~Occurs("fetch", reqs[q].trace)
        /\ DynamicHolds(caches, KeyOfSlot(r), reqs[r].networkResponse)

\* C25: provided every network fetch and every cache operation eventually
\* settles, every processed GET request eventually delivers a response to
\* its caller, under each strategy and also when its fetch fails.
C25_EventualResponse ==
    \A r \in Slots : Handled(r) ~> (reqs[r].result.kind = "response")

====
